---------------------------- MODULE Spec2Model ----------------------------
(***************************************************************************)
(* Two independent scripts of the repository:                              *)
(*   2word_frequency_analysis.py : get_text, map_reduce (normalise, map,   *)
(*       shuffle, reduce over thread pools) and visualize_top_words;       *)
(*   1async_file_sorter.py       : read_folder / copy_file under asyncio.  *)
(* Spec is the word-frequency program, SorterSpec the file sorter.         *)
(***************************************************************************)
EXTENDS Integers, Sequences, FiniteSets, TLC

VARIABLES
    \* ---- 2word_frequency_analysis.py ----
    entry,          \* "main": the __main__ block; "call": map_reduce(text) called directly
    response,       \* what requests.get will yield: a text, or RequestException
    text,           \* the text variable (a sequence of characters, None, or Unset)
    pc,             \* position of the driver thread
    words,          \* map_reduce: the token list
    mfut,           \* futures of the map stage (executor.map submits in order)
    mapped_values,  \* list(executor.map(map_function, words))
    si,             \* shuffle_function: index of the for loop
    shuffled,       \* shuffle_function: the defaultdict(list), in insertion order
    rfut,           \* futures of the reduce stage
    reduced_values, \* list(executor.map(reduce_function, shuffled_values))
    result,         \* the dict map_reduce returned (insertion ordered), or NoResult
    top_n,          \* visualize_top_words: its argument
    sorted_words,   \* visualize_top_words: sorted(...)[:top_n]
    printed,        \* what print() wrote
    raised,         \* the exception that ended the run, or NoError
    \* ---- 1async_file_sorter.py ----
    tree,           \* what os.walk yields: a sequence of directories (sets of file names)
    spc,            \* position of read_folder
    di,             \* read_folder: index of the directory of the walk
    tasks,          \* the copy_file tasks handed to the current asyncio.gather
    destfs,         \* output folder: destination path -> what it holds
    log,            \* loguru records
    attempted       \* source paths for which a copy_file task was created

wvars == <<entry, response, text, pc, words, mfut, mapped_values, si, shuffled,
           rfut, reduced_values, result, top_n, sorted_words, printed, raised>>
svars == <<tree, spc, di, tasks, destfs, log, attempted>>
vars == <<wvars, svars>>

(***************************************************************************)
(* Bounds of the model.                                                    *)
(***************************************************************************)
MaxLen == 5
MaxTopN == 3
MaxDirs == 2
MaxFiles == 2

(***************************************************************************)
(* Characters and texts.  A text is a sequence of one-character strings.   *)
(***************************************************************************)
\* Values that are no text: each is a sequence, as a text is, holding one
\* string that is no character.
None == <<"None">>
Unset == <<"Unset">>
RequestException == <<"RequestException">>
\* the name result is not bound: shaped as a dict, whose key is no token
NoResult == << <<None, -1>> >>
NoError == "NoError"

\* string.punctuation (the grave accent, which a TLA+ string cannot hold, is
\* left out; no text of the model contains it)
Punctuation ==
    {"!", "\"", "#", "$", "%", "&", "'", "(", ")", "*", "+", ",", "-", ".", "/",
     ":", ";", "<", "=", ">", "?", "@", "[", "\\", "]", "^", "_", "{", "|",
     "}", "~"}

\* the characters str.split() with no argument splits on
Whitespace == {" ", "\t", "\n", "\r", "\f"}

UpperCase == <<"A", "B", "C", "D", "E", "F", "G", "H", "I", "J", "K", "L", "M",
               "N", "O", "P", "Q", "R", "S", "T", "U", "V", "W", "X", "Y", "Z">>
LowerCase == <<"a", "b", "c", "d", "e", "f", "g", "h", "i", "j", "k", "l", "m",
               "n", "o", "p", "q", "r", "s", "t", "u", "v", "w", "x", "y", "z">>

UpperSet == {UpperCase[i] : i \in DOMAIN UpperCase}

\* str.lower() on one character
lower_char(c) ==
    IF c \in UpperSet
    THEN LowerCase[CHOOSE i \in DOMAIN UpperCase : UpperCase[i] = c]
    ELSE c

\* str.lower()
lower(s) == [i \in DOMAIN s |-> lower_char(s[i])]

\* remove_punctuation: text.translate(str.maketrans('', '', string.punctuation))
remove_punctuation(s) == SelectSeq(s, LAMBDA c : c \notin Punctuation)

\* str.split(): maximal runs of non-whitespace characters, in order
RECURSIVE split_from(_, _, _, _)
split_from(s, i, cur, acc) ==
    IF i > Len(s)
    THEN IF cur = <<>> THEN acc ELSE Append(acc, cur)
    ELSE IF s[i] \in Whitespace
         THEN split_from(s, i + 1, <<>>, IF cur = <<>> THEN acc ELSE Append(acc, cur))
         ELSE split_from(s, i + 1, Append(cur, s[i]), acc)

split(s) == split_from(s, 1, <<>>, <<>>)

\* the articles set of map_reduce
articles ==
    { <<"t","h","e">>, <<"a">>, <<"a","n">>, <<"o","f">>, <<"t","o">>,
      <<"a","n","d">>, <<"i","n">>, <<"i","t">>, <<"t","h","a","t">>,
      <<"n","o","t">>, <<"a","s">>, <<"i","s">>, <<"a","t">>, <<"f","o","r">>,
      <<"b","u","t">>, <<"o","n">>, <<"o","r">>, <<"b","y">>,
      <<"f","r","o","m">> }

\* faulty variant: the stop-word filter applied before lowercasing
tokenize_filter_before_lower(s) ==
    LET raw == split(remove_punctuation(s))
        kept == SelectSeq(raw, LAMBDA w : w \notin articles)
    IN  [i \in DOMAIN kept |-> lower(kept[i])]

\* faulty variant: the text is not lowercased
tokenize_no_lower(s) ==
    SelectSeq(split(remove_punctuation(s)), LAMBDA w : w \notin articles)

\* map_reduce, lines 83-87: the words list
tokenize(s) ==
    SelectSeq(split(lower(remove_punctuation(s))), LAMBDA w : w \notin articles)

\* map_function
map_function(word) == <<word, 1>>

(***************************************************************************)
(* Python dicts keep insertion order: a dict is a sequence of <<key,       *)
(* value>> pairs with distinct keys.                                       *)
(***************************************************************************)
DictKeys(d) == {d[i][1] : i \in DOMAIN d}
DictIndex(d, k) == CHOOSE i \in DOMAIN d : d[i][1] = k
DictGet(d, k) == d[DictIndex(d, k)][2]

\* faulty variant: the group is overwritten instead of appended to
shuffle_append_overwrite(d, kv) ==
    IF kv[1] \in DictKeys(d)
    THEN [d EXCEPT ![DictIndex(d, kv[1])] = <<kv[1], <<kv[2]>> >>]
    ELSE Append(d, <<kv[1], <<kv[2]>> >>)

\* faulty variant: only consecutive equal keys are grouped (groupby on unsorted
\* input); a key seen again after another key starts its group afresh
shuffle_append_groupby(d, kv) ==
    IF d # <<>> /\ d[Len(d)][1] = kv[1]
    THEN [d EXCEPT ![Len(d)] = <<kv[1], Append(@[2], kv[2])>>]
    ELSE IF kv[1] \in DictKeys(d)
         THEN [d EXCEPT ![DictIndex(d, kv[1])] = <<kv[1], <<kv[2]>> >>]
         ELSE Append(d, <<kv[1], <<kv[2]>> >>)

\* shuffle_function, the loop body: shuffled[key].append(value)
shuffle_append(d, kv) ==
    IF kv[1] \in DictKeys(d)
    THEN [d EXCEPT ![DictIndex(d, kv[1])] = <<kv[1], Append(@[2], kv[2])>>]
    ELSE Append(d, <<kv[1], <<kv[2]>> >>)

\* shuffle_function, whole: the loop over mapped_values
RECURSIVE shuffle_loop(_, _, _)
shuffle_loop(mv, i, d) ==
    IF i > Len(mv) THEN d ELSE shuffle_loop(mv, i + 1, shuffle_append(d, mv[i]))

shuffle_function(mv) == shuffle_loop(mv, 1, <<>>)

\* sum(values)
RECURSIVE sum(_)
sum(values) == IF values = <<>> THEN 0 ELSE values[1] + sum(Tail(values))

\* faulty variant: the first count is returned instead of the sum
reduce_function_first(kv) == <<kv[1], kv[2][1]>>

\* reduce_function
reduce_function(kv) == <<kv[1], sum(kv[2])>>

\* dict(reduced_values): a later pair of a key replaces the value in place
RECURSIVE dict_loop(_, _, _)
dict_loop(pairs, i, d) ==
    IF i > Len(pairs)
    THEN d
    ELSE dict_loop(pairs, i + 1,
                   IF pairs[i][1] \in DictKeys(d)
                   THEN [d EXCEPT ![DictIndex(d, pairs[i][1])] = pairs[i]]
                   ELSE Append(d, pairs[i]))

dict(pairs) == dict_loop(pairs, 1, <<>>)

\* the sequential composition of the stages of map_reduce on a token list
map_reduce_words(ws) ==
    LET mv == [i \in DOMAIN ws |-> map_function(ws[i])]
        sh == shuffle_function(mv)
    IN  dict([i \in DOMAIN sh |-> reduce_function(sh[i])])

\* where x goes in a list sorted by descending count: after every element
\* whose count is >= x's (a stable sort keeps equal elements in input order)
RECURSIVE insert_desc(_, _)
insert_desc(sorted, x) ==
    IF sorted = <<>> THEN <<x>>
    ELSE IF sorted[1][2] >= x[2]
         THEN <<sorted[1]>> \o insert_desc(Tail(sorted), x)
         ELSE <<x>> \o sorted

RECURSIVE sort_loop(_, _, _)
sort_loop(items, i, acc) ==
    IF i > Len(items) THEN acc ELSE sort_loop(items, i + 1, insert_desc(acc, items[i]))

\* where x goes in a list sorted by ascending count, stable
RECURSIVE insert_asc(_, _)
insert_asc(sorted, x) ==
    IF sorted = <<>> THEN <<x>>
    ELSE IF sorted[1][2] <= x[2]
         THEN <<sorted[1]>> \o insert_asc(Tail(sorted), x)
         ELSE <<x>> \o sorted

RECURSIVE sort_asc_loop(_, _, _)
sort_asc_loop(items, i, acc) ==
    IF i > Len(items) THEN acc ELSE sort_asc_loop(items, i + 1, insert_asc(acc, items[i]))

\* faulty variant: sorted(items, key=...)[::-1], which reverses the ties too
sorted_by_count_reversed_asc(items) ==
    LET a == sort_asc_loop(items, 1, <<>>)
    IN  [i \in DOMAIN a |-> a[Len(a) + 1 - i]]

\* sorted(result.items(), key=lambda item: item[1], reverse=True)
sorted_by_count(items) == sort_loop(items, 1, <<>>)

\* seq[:n] for n >= 0
slice_to(seq, n) == SubSeq(seq, 1, IF n < Len(seq) THEN n ELSE Len(seq))

(***************************************************************************)
(* Input texts: every text of at most MaxLen characters over Alphabet, and *)
(* the sample texts.                                                       *)
(***************************************************************************)
Alphabet == {"a", "t", "T", ".", " "}

ExampleText ==
    <<"T","h","e"," ","c","a","t"," ","s","a","t"," ","o","n"," ","t","h","e",
      " ","c","a","t"," ","m","a","t","."," ","A"," ","C","A","T"," ","r","a",
      "n","!">>

CatText == <<"C","a","t","."," ","c","a","t","\n","C","A","T","!">>

TieText ==
    <<"m","a","t","\t","T","h","e",","," ","h","a","t"," ","H","a","t"," ","r","a","n">>

SampleTexts == {ExampleText, CatText, TieText}

Texts == UNION {[1..n -> Alphabet] : n \in 0..MaxLen} \cup SampleTexts

\* the top_n of the __main__ block
TopNMain == 10

Future(arg) == [arg |-> arg, state |-> "pending", result |-> None]

WordInit ==
    /\ entry \in {"main", "call"}
    /\ response \in IF entry = "main" THEN Texts \cup {RequestException} ELSE {Unset}
    /\ text \in IF entry = "main" THEN {Unset} ELSE Texts
    /\ pc = IF entry = "main" THEN "get_text" ELSE "map_reduce"
    /\ words = <<>>
    /\ mfut = <<>>
    /\ mapped_values = <<>>
    /\ si = 1
    /\ shuffled = <<>>
    /\ rfut = <<>>
    /\ reduced_values = <<>>
    /\ result = NoResult
    /\ top_n = 0
    /\ sorted_words = <<>>
    /\ printed = <<>>
    /\ raised = NoError

(***************************************************************************)
(* __main__ and get_text                                                   *)
(***************************************************************************)
\* get_text(url): the response text, or None after printing the error
GetText ==
    /\ pc = "get_text"
    /\ IF response = RequestException
       THEN /\ text' = None
            /\ printed' = Append(printed, "An error occurred while fetching the text")
       ELSE /\ text' = response
            /\ printed' = printed
    /\ pc' = "if_text"
    /\ UNCHANGED <<svars, entry, response, words, mfut, mapped_values, si, shuffled, rfut,
                   reduced_values, result, top_n, sorted_words, raised>>

\* faulty variant: the test is "text is not None"
truthy_not_none(t) == t # None

\* bool(text): None and the empty string are false
truthy(t) == t # None /\ t # <<>>

\* __main__: if text: ... else: print("Error: Failed to fetch text.")
MainIfText ==
    /\ pc = "if_text"
    /\ IF truthy(text)
       THEN /\ pc' = "map_reduce"
            /\ printed' = printed
       ELSE /\ pc' = "exit"
            /\ printed' = Append(printed, "Error: Failed to fetch text.")
    /\ UNCHANGED <<svars, entry, response, text, words, mfut, mapped_values, si, shuffled,
                   rfut, reduced_values, result, top_n, sorted_words, raised>>

(***************************************************************************)
(* map_reduce                                                              *)
(***************************************************************************)
\* lines 83-87: text = remove_punctuation(text).lower(); words = [...]
Normalize ==
    /\ pc = "map_reduce"
    /\ words' = tokenize(text)
    /\ pc' = "map_submit"
    /\ UNCHANGED <<svars, entry, response, text, mfut, mapped_values, si, shuffled, rfut,
                   reduced_values, result, top_n, sorted_words, printed, raised>>

\* executor.map: fs = [self.submit(fn, *args) for args in zip(*iterables)],
\* one submit per step; a submitted task may run at once
MapSubmit ==
    /\ pc = "map_submit"
    /\ Len(mfut) < Len(words)
    /\ mfut' = Append(mfut, Future(words[Len(mfut) + 1]))
    /\ UNCHANGED <<svars, entry, response, text, pc, words, mapped_values, si, shuffled,
                   rfut, reduced_values, result, top_n, sorted_words, printed, raised>>

\* executor.map returns its result iterator once every task is submitted
MapSubmitted ==
    /\ pc = "map_submit"
    /\ Len(mfut) = Len(words)
    /\ pc' = "map_collect"
    /\ UNCHANGED <<svars, entry, response, text, words, mfut, mapped_values, si, shuffled,
                   rfut, reduced_values, result, top_n, sorted_words, printed, raised>>

\* a worker thread of the pool runs map_function on one submitted task
MapRun(i) ==
    /\ mfut[i].state = "pending"
    /\ mfut' = [mfut EXCEPT ![i] = [arg |-> @.arg, state |-> "done",
                                    result |-> map_function(@.arg)]]
    /\ UNCHANGED <<svars, entry, response, text, pc, words, mapped_values, si, shuffled,
                   rfut, reduced_values, result, top_n, sorted_words, printed, raised>>

\* faulty variant: the result of a future is taken without waiting for it
ResultReady_nowait(f) == f.state \in {"pending", "done"}

\* Future.result() returns once the task has completed
ResultReady(f) == f.state = "done"

InFlight(futs) == {i \in DOMAIN futs : futs[i].state = "pending"}

\* list(...) over the result iterator: the results in submission order
MapCollect ==
    /\ pc = "map_collect"
    /\ Len(mapped_values) < Len(mfut)
    /\ ResultReady(mfut[Len(mapped_values) + 1])
    /\ mapped_values' = Append(mapped_values, mfut[Len(mapped_values) + 1].result)
    /\ UNCHANGED <<svars, entry, response, text, pc, words, mfut, si, shuffled, rfut,
                   reduced_values, result, top_n, sorted_words, printed, raised>>

\* the list is complete; leaving the with block is executor.shutdown(wait=True);
\* then shuffle_function is entered: shuffled = defaultdict(list)
MapJoin ==
    /\ pc = "map_collect"
    /\ Len(mapped_values) = Len(mfut)
    /\ pc' = "shuffle"
    /\ si' = 1
    /\ shuffled' = <<>>
    /\ UNCHANGED <<svars, entry, response, text, words, mfut, mapped_values, rfut,
                   reduced_values, result, top_n, sorted_words, printed, raised>>

\* shuffle_function, one iteration: shuffled[key].append(value)
ShuffleStep ==
    /\ pc = "shuffle"
    /\ si <= Len(mapped_values)
    /\ shuffled' = shuffle_append(shuffled, mapped_values[si])
    /\ si' = si + 1
    /\ UNCHANGED <<svars, entry, response, text, pc, words, mfut, mapped_values, rfut,
                   reduced_values, result, top_n, sorted_words, printed, raised>>

\* return shuffled.items(): a view of the dict, not a copy
ShuffleReturn ==
    /\ pc = "shuffle"
    /\ si > Len(mapped_values)
    /\ pc' = "reduce_submit"
    /\ UNCHANGED <<svars, entry, response, text, words, mfut, mapped_values, si, shuffled,
                   rfut, reduced_values, result, top_n, sorted_words, printed, raised>>

\* executor.map(reduce_function, shuffled_values): the driver takes the next
\* item of the view of the grouping dict and submits a task for it
ReduceSubmit ==
    /\ pc = "reduce_submit"
    /\ Len(rfut) < Len(shuffled)
    /\ rfut' = Append(rfut, Future(shuffled[Len(rfut) + 1]))
    /\ UNCHANGED <<svars, entry, response, text, pc, words, mfut, mapped_values, si,
                   shuffled, reduced_values, result, top_n, sorted_words, printed,
                   raised>>

ReduceSubmitted ==
    /\ pc = "reduce_submit"
    /\ Len(rfut) = Len(shuffled)
    /\ pc' = "reduce_collect"
    /\ UNCHANGED <<svars, entry, response, text, words, mfut, mapped_values, si, shuffled,
                   rfut, reduced_values, result, top_n, sorted_words, printed, raised>>

\* a worker thread of the pool runs reduce_function on one submitted group
ReduceRun(i) ==
    /\ rfut[i].state = "pending"
    /\ rfut' = [rfut EXCEPT ![i] = [arg |-> @.arg, state |-> "done",
                                    result |-> reduce_function(@.arg)]]
    /\ UNCHANGED <<svars, entry, response, text, pc, words, mfut, mapped_values, si,
                   shuffled, reduced_values, result, top_n, sorted_words, printed,
                   raised>>

ReduceCollect ==
    /\ pc = "reduce_collect"
    /\ Len(reduced_values) < Len(rfut)
    /\ ResultReady(rfut[Len(reduced_values) + 1])
    /\ reduced_values' = Append(reduced_values, rfut[Len(reduced_values) + 1].result)
    /\ UNCHANGED <<svars, entry, response, text, pc, words, mfut, mapped_values, si,
                   shuffled, rfut, result, top_n, sorted_words, printed, raised>>

\* the with block is left; return dict(reduced_values)
ReduceJoin ==
    /\ pc = "reduce_collect"
    /\ Len(reduced_values) = Len(rfut)
    /\ result' = dict(reduced_values)
    /\ pc' = "returned"
    /\ UNCHANGED <<svars, entry, response, text, words, mfut, mapped_values, si, shuffled,
                   rfut, reduced_values, top_n, sorted_words, printed, raised>>

(***************************************************************************)
(* visualize_top_words(result, top_n): __main__ passes 10, a direct call   *)
(* any top_n of 0..MaxTopN.  Unpacking the transposed sorted_words into    *)
(* words, frequencies raises ValueError when sorted_words is empty.        *)
(***************************************************************************)
Visualize ==
    /\ pc = "returned"
    /\ \E n \in IF entry = "main" THEN {TopNMain} ELSE 0..MaxTopN :
         /\ top_n' = n
         /\ sorted_words' = slice_to(sorted_by_count(result), n)
    /\ IF sorted_words' = <<>>
       THEN pc' = "raised" /\ raised' = "ValueError"
       ELSE pc' = "shown" /\ raised' = raised
    /\ UNCHANGED <<svars, entry, response, text, words, mfut, mapped_values, si, shuffled,
                   rfut, reduced_values, result, printed>>

WordNext ==
    \/ GetText
    \/ MainIfText
    \/ Normalize
    \/ MapSubmit
    \/ MapSubmitted
    \/ \E i \in DOMAIN mfut : MapRun(i)
    \/ MapCollect
    \/ MapJoin
    \/ ShuffleStep
    \/ ShuffleReturn
    \/ ReduceSubmit
    \/ ReduceSubmitted
    \/ \E i \in DOMAIN rfut : ReduceRun(i)
    \/ ReduceCollect
    \/ ReduceJoin
    \/ Visualize

(***************************************************************************)
(* 1async_file_sorter.py.  A file name is a sequence of characters; a      *)
(* source path is <<index of its directory in the walk, file name>>; a     *)
(* destination path is <<extension folder, file name>> under output_folder.*)
(***************************************************************************)
FileNames == { <<"a", ".", "t">>, <<"a">>, <<".", "t">> }

NoExtension == <<"n","o","_","e","x","t","e","n","s","i","o","n">>

\* Path.suffix: from the last dot, unless that dot is the first or the last
\* character of the name
suffix(name) ==
    LET dots == {j \in DOMAIN name : name[j] = "."}
        last == CHOOSE j \in dots : \A k \in dots : k <= j
    IN  IF dots # {} /\ 1 < last /\ last < Len(name)
        THEN SubSeq(name, last, Len(name))
        ELSE <<>>

\* copy_file, lines 23-26: extension = source_path.suffix[1:] or "no_extension";
\* destination_path = destination_folder / extension / source_path.name
destination_path(name) ==
    LET ext == Tail(suffix(name))
    IN  <<IF suffix(name) = <<>> \/ ext = <<>> THEN NoExtension ELSE ext, name>>

Trees ==
    UNION {[1..n -> {fs \in SUBSET FileNames : Cardinality(fs) <= MaxFiles}] :
             n \in 0..MaxDirs}

SorterInit ==
    /\ tree \in Trees
    /\ spc = "walk"
    /\ di = 0
    /\ tasks = {}
    /\ destfs = <<>>
    /\ log = {}
    /\ attempted = {}

CopyTask(d, name) ==
    [src |-> <<d, name>>, dest |-> destination_path(name), state |-> "created"]

Finished(t) == t.state \in {"done", "failed"}
Running == {t \in tasks : ~Finished(t)}

\* read_folder, lines 50-54: the next (root, _, files) of os.walk; a
\* copy_file task per file, handed to asyncio.gather
WalkNext ==
    /\ spc = "walk"
    /\ di < Len(tree)
    /\ di' = di + 1
    /\ tasks' = tasks \cup {CopyTask(di + 1, f) : f \in tree[di + 1]}
    /\ attempted' = attempted \cup {<<di + 1, f>> : f \in tree[di + 1]}
    /\ spc' = "gather"
    /\ UNCHANGED <<wvars, tree, destfs, log>>

\* faulty variant: the copies are started and not awaited
gather_not_awaited(ts) == TRUE

\* await asyncio.gather(*tasks) returns when every task has finished
gather_returns(ts) == \A t \in ts : Finished(t)

WalkGathered ==
    /\ spc = "gather"
    /\ gather_returns(tasks)
    /\ spc' = "walk"
    /\ UNCHANGED <<wvars, tree, di, tasks, destfs, log, attempted>>

\* os.walk is exhausted: read_folder returns
WalkEnd ==
    /\ spc = "walk"
    /\ di = Len(tree)
    /\ spc' = "finished"
    /\ UNCHANGED <<wvars, tree, di, tasks, destfs, log, attempted>>

SetState(t, st) == (tasks \ {t}) \cup {[t EXCEPT !.state = st]}

Write(path, content) ==
    [q \in DOMAIN destfs \cup {path} |-> IF q = path THEN content ELSE destfs[q]]

\* copy_file, lines 29-33: mkdir, open the source, open the destination 'wb'
\* (which creates or truncates it)
CopyOpen(t) ==
    /\ spc = "gather"
    /\ t \in tasks
    /\ t.state = "created"
    /\ tasks' = SetState(t, "open")
    /\ destfs' = Write(t.dest, {})
    /\ UNCHANGED <<wvars, tree, spc, di, log, attempted>>

\* copy_file, lines 34-36: await dst.write(await src.read()); close; log
CopyWrite(t) ==
    /\ spc = "gather"
    /\ t \in tasks
    /\ t.state = "open"
    /\ tasks' = SetState(t, "done")
    /\ destfs' = Write(t.dest, {t.src})
    /\ log' = log \cup {[level |-> "INFO", src |-> t.src]}
    /\ UNCHANGED <<wvars, tree, spc, di, attempted>>

\* faulty variant: no try/except; the exception leaves copy_file, and gather
\* raises it in read_folder
CopyFail_propagates(t) ==
    /\ spc = "gather"
    /\ t \in tasks
    /\ ~Finished(t)
    /\ tasks' = SetState(t, "failed")
    /\ spc' = "raised"
    /\ UNCHANGED <<wvars, tree, di, destfs, log, attempted>>

\* copy_file, lines 37-38: any exception raised in the try block (before or
\* after the destination was opened) is caught and logged
CopyFail(t) ==
    /\ spc = "gather"
    /\ t \in tasks
    /\ ~Finished(t)
    /\ tasks' = SetState(t, "failed")
    /\ log' = log \cup {[level |-> "ERROR", src |-> t.src]}
    /\ UNCHANGED <<wvars, tree, spc, di, destfs, attempted>>

\* The event loop runs the tasks only while read_folder is suspended in its
\* await: every copy_file step is guarded by spc = "gather".
SorterNext ==
    \/ WalkNext
    \/ WalkGathered
    \/ WalkEnd
    \/ \E t \in tasks : CopyOpen(t)
    \/ \E t \in tasks : CopyWrite(t)
    \/ \E t \in tasks : CopyFail(t)

SorterIdle ==
    /\ tree = <<>>
    /\ spc = "idle"
    /\ di = 0
    /\ tasks = {}
    /\ destfs = <<>>
    /\ log = {}
    /\ attempted = {}

Init == WordInit /\ SorterIdle

Next == WordNext

Spec == Init /\ [][Next]_vars

WordIdle ==
    /\ entry = "call"
    /\ response = Unset
    /\ text = Unset
    /\ pc = "idle"
    /\ words = <<>>
    /\ mfut = <<>>
    /\ mapped_values = <<>>
    /\ si = 1
    /\ shuffled = <<>>
    /\ rfut = <<>>
    /\ reduced_values = <<>>
    /\ result = NoResult
    /\ top_n = 0
    /\ sorted_words = <<>>
    /\ printed = <<>>
    /\ raised = NoError

SorterStart == SorterInit /\ WordIdle

SorterSpec == SorterStart /\ [][SorterNext]_vars

(***************************************************************************)
(* Properties of the word-frequency program (checked under Spec).          *)
(***************************************************************************)
Returned == result # NoResult

Occurrences(ws, k) == Cardinality({i \in DOMAIN ws : ws[i] = k})

SameMapping(d, e) ==
    /\ DictKeys(d) = DictKeys(e)
    /\ \A k \in DictKeys(d) : DictGet(d, k) = DictGet(e, k)

\* The raw text cut at whitespace first, each piece then stripped of
\* punctuation and lowercased on its own.
Pieces(t) == split(t)
Fold(piece) == lower(remove_punctuation(piece))
Counted(t) == {i \in DOMAIN Pieces(t) :
                 Fold(Pieces(t)[i]) # <<>> /\ Fold(Pieces(t)[i]) \notin articles}

cat == <<"c", "a", "t">>
sat == <<"s", "a", "t">>
mat == <<"m", "a", "t">>
ran == <<"r", "a", "n">>

\* C1: the mapping map_reduce returns has exactly the distinct tokens as keys,
\* each once, and maps each to the number of its occurrences in the token
\* list; the example text gives the tokens cat sat cat mat cat ran and
\* {cat: 3, sat: 1, mat: 1, ran: 1}.
C1_CountsOccurrences ==
    Returned =>
        /\ DictKeys(result) = {words[i] : i \in DOMAIN words}
        /\ Len(result) = Cardinality(DictKeys(result))
        /\ \A k \in DictKeys(result) : DictGet(result, k) = Occurrences(words, k)
        /\ text = ExampleText =>
             /\ words = <<cat, sat, cat, mat, cat, ran>>
             /\ SameMapping(result, << <<cat, 3>>, <<sat, 1>>, <<mat, 1>>, <<ran, 1>> >>)

C1_Witness == Returned /\ text = ExampleText

\* C2: whatever the completion order of the pool's tasks was, the mapping
\* returned is the one the stages yield on any permutation of the tokens.
C2_OrderIndependent ==
    Returned =>
        \A p \in Permutations(DOMAIN words) :
            SameMapping(result, map_reduce_words([i \in DOMAIN words |-> words[p[i]]]))

C2_Witness ==
    /\ Returned
    /\ Len(words) >= 3
    /\ \E i, j \in DOMAIN words : i + 1 < j /\ words[i] = words[j] /\ words[i + 1] # words[i]

\* C3: the values of the returned mapping sum to the number of tokens left
\* after punctuation removal, lowercasing, splitting and stop-word removal.
C3_CountConservation ==
    Returned =>
        /\ sum([i \in DOMAIN result |-> result[i][2]]) = Len(words)
        /\ Len(words) = Cardinality(Counted(text))

C3_Witness ==
    /\ Returned
    /\ Len(words) >= 2
    /\ Len(Pieces(text)) > Len(words)
    /\ Len(result) < Len(words)

\* C4: no stop-word is a key of the returned mapping, whatever its casing in
\* the input and whatever punctuation is attached to it.
C4_NoStopWordKey ==
    /\ \A i \in DOMAIN words : words[i] \notin articles
    /\ Returned => DictKeys(result) \cap articles = {}

C4_Witness ==
    /\ Returned
    /\ result # <<>>
    /\ \E i \in DOMAIN Pieces(text) :
         /\ Pieces(text)[i] \notin articles
         /\ remove_punctuation(Pieces(text)[i]) \notin articles
         /\ remove_punctuation(Pieces(text)[i]) # Pieces(text)[i]
         /\ Fold(Pieces(text)[i]) \in articles

\* C5: no key holds an uppercase letter or a punctuation character, and the
\* value of a key is the number of whitespace-separated pieces of the input
\* that equal the key once stripped of punctuation and lowercased; "Cat.",
\* "cat" and "CAT!" are counted under the one key "cat".
C5_OneKeyPerWord ==
    Returned =>
        /\ \A k \in DictKeys(result) : \A j \in DOMAIN k :
             k[j] \notin UpperSet \cup Punctuation
        /\ \A k \in DictKeys(result) :
             DictGet(result, k) =
                 Cardinality({i \in DOMAIN Pieces(text) : Fold(Pieces(text)[i]) = k})
        /\ \A i \in Counted(text) : Fold(Pieces(text)[i]) \in DictKeys(result)
        /\ text = CatText => result = << <<cat, 3>> >>

C5_Witness == Returned /\ text = CatText

Ended == pc \in {"exit", "shown", "raised"}

\* C6 as stated: a run given the empty string or the absent text of a failed
\* fetch ends with an empty FrequencyResult produced and nothing raised.
C6_EmptyResultForEmptyOrAbsent ==
    (Ended /\ text \in {<<>>, None}) => (result = <<>> /\ raised = NoError)

\* C6 amended: map_reduce called on the empty string returns an empty mapping
\* without raising (an exception can come only afterwards, from
\* visualize_top_words on the empty mapping); the __main__ driver, given the absent text of a failed
\* fetch or the empty string, does not run map_reduce and binds no result: it
\* prints "Error: Failed to fetch text." after the fetch error that get_text
\* printed, and raises nothing.
C6_EmptyTextAndAbsentText ==
    /\ (entry = "call" /\ text = <<>> /\ pc = "returned") =>
           (result = <<>> /\ raised = NoError)
    /\ (entry = "call" /\ text = <<>> /\ raised # NoError) =>
           (result = <<>> /\ pc = "raised" /\ sorted_words = <<>>)
    /\ (entry = "main" /\ text \in {<<>>, None} /\ pc # "if_text") =>
           /\ pc = "exit"
           /\ result = NoResult
           /\ raised = NoError
           /\ printed[Len(printed)] = "Error: Failed to fetch text."
           /\ (response = RequestException) =
                  (printed[1] = "An error occurred while fetching the text")
    /\ (entry = "main" /\ pc = "exit") => text \in {<<>>, None}

C6_Witness == entry = "main" /\ pc = "exit" /\ text = None

NoTaskInFlight == InFlight(mfut) = {} /\ InFlight(rfut) = {}

StagesInOrder ==
    \* normalise before map: tasks are submitted for the tokens only
    /\ \A i \in DOMAIN mfut : mfut[i].arg = words[i]
    /\ InFlight(mfut) # {} => pc \in {"map_submit", "map_collect"}
    \* the shuffle runs with every map task submitted, completed and collected
    /\ pc = "shuffle" =>
           /\ Len(mfut) = Len(words)
           /\ Len(mapped_values) = Len(words)
           /\ NoTaskInFlight
    /\ (si > 1 \/ shuffled # <<>>) => InFlight(mfut) = {}
    \* reduce tasks exist only once the shuffle has consumed every pair
    /\ rfut # <<>> =>
           /\ pc \in {"reduce_submit", "reduce_collect", "returned", "shown", "raised"}
           /\ si = Len(mapped_values) + 1
           /\ \A i \in DOMAIN rfut : rfut[i].arg = shuffled[i]
    /\ InFlight(rfut) # {} => pc \in {"reduce_submit", "reduce_collect"}

\* the driver thread is in the shuffle loop, or about to take the next item of
\* the grouping dict for a reduce task
DriverUsesGrouping ==
    \/ pc = "shuffle"
    \/ pc = "reduce_submit" /\ Len(rfut) < Len(shuffled)

\* C7 as stated: the stages run in order behind barriers, and the driver
\* reads and writes the grouping map only while no worker task is in flight.
C7_GroupingNeverUsedInFlight ==
    /\ StagesInOrder
    /\ DriverUsesGrouping => NoTaskInFlight

\* C7 amended: the stages run in order behind barriers (the shuffle starts
\* after every map task has completed, reduce tasks start after the shuffle
\* has finished), and the grouping map is written by the driver thread only
\* while no worker task is in flight and never after the shuffle; the driver
\* still reads it while it submits the reduce tasks, when reduce tasks
\* submitted earlier may be in flight.
C7_StagesAndWritesBehindBarriers ==
    /\ []StagesInOrder
    /\ [][shuffled' # shuffled => (pc = "shuffle" /\ NoTaskInFlight /\ rfut = <<>>)]_vars

C7_Witness ==
    /\ pc = "reduce_submit"
    /\ Len(rfut) < Len(shuffled)
    /\ InFlight(rfut) # {}

FirstIndex(ws, w) == CHOOSE i \in DOMAIN ws : ws[i] = w /\ \A j \in 1..(i - 1) : ws[j] # w

\* p comes before q: a higher count, or the same count and encountered earlier
RanksBefore(p, q) ==
    \/ p[2] > q[2]
    \/ p[2] = q[2] /\ FirstIndex(words, p[1]) < FirstIndex(words, q[1])

Items(d) == {d[i] : i \in DOMAIN d}

\* C8: visualize_top_words selects the first top_n pairs of the result in
\* descending order of count, equal counts in the order the words were first
\* encountered in the input; a word with the strictly highest count is first.
C8_TopNByCountThenFirstSeen ==
    (pc \in {"shown", "raised"}) =>
        /\ Len(sorted_words) = IF top_n < Len(result) THEN top_n ELSE Len(result)
        /\ Items(sorted_words) \subseteq Items(result)
        /\ \A i, j \in DOMAIN sorted_words :
             i < j => RanksBefore(sorted_words[i], sorted_words[j])
        /\ \A i \in DOMAIN sorted_words : \A q \in Items(result) \ Items(sorted_words) :
             RanksBefore(sorted_words[i], q)
        /\ \A q \in Items(result) :
             (top_n >= 1 /\ \A r \in Items(result) \ {q} : q[2] > r[2])
                 => sorted_words[1] = q
        /\ (pc = "raised") = (sorted_words = <<>>)

C8_Witness ==
    /\ pc = "shown"
    /\ top_n < Len(result)
    /\ result[1][2] < sorted_words[1][2]
    /\ \E i, j \in DOMAIN result : i < j /\ result[i][2] = result[j][2]
                                     /\ result[i] \in Items(sorted_words)
                                     /\ result[j] \notin Items(sorted_words)

(***************************************************************************)
(* Properties of the file sorter (checked under SorterSpec).               *)
(***************************************************************************)
Sources == {<<d, f>> : d \in DOMAIN tree, f \in FileNames} \cap
           UNION {{<<d, f>> : f \in tree[d]} : d \in DOMAIN tree}

TaskOf(src) == CHOOSE t \in tasks : t.src = src

\* C9: a failing copy is caught and logged in its own task; read_folder
\* never raises, and when it returns a copy was attempted for every file of
\* the walk, each either copied and logged or failed and logged, so that no
\* sibling and no later directory is skipped.
C9_CopyFailureIsolated ==
    /\ spc # "raised"
    /\ \A t \in tasks : t.state = "failed" => [level |-> "ERROR", src |-> t.src] \in log
    /\ spc = "finished" =>
           /\ attempted = Sources
           /\ \A src \in Sources :
                /\ \E t \in tasks : t.src = src
                /\ Finished(TaskOf(src))
                /\ TaskOf(src).state = "done" =>
                       /\ [level |-> "INFO", src |-> src] \in log
                       /\ TaskOf(src).dest \in DOMAIN destfs

C9_Witness ==
    /\ spc = "finished"
    /\ \E t, u, v \in tasks :
         /\ t.state = "failed" /\ u.state = "done" /\ v.state = "done"
         /\ t.src[1] = 1 /\ u.src[1] = 1 /\ v.src[1] = 2

\* C10: copy tasks are in flight only for the directory being gathered, each
\* writes to <extension or no_extension>/<file name>, and no two tasks in
\* flight have the same destination path.
C10_NoSharedDestinationInFlight ==
    /\ \A t \in Running : t.src[1] = di /\ spc = "gather"
    /\ \A t \in tasks :
         /\ t.dest[2] = t.src[2]
         /\ \/ t.dest[1] = NoExtension /\ suffix(t.src[2]) \in {<<>>, <<".">>}
            \/ t.dest[1] # <<>> /\ <<".">> \o t.dest[1] = suffix(t.src[2])
    /\ \A t, u \in Running : t # u => t.dest # u.dest

C10_Witness ==
    /\ \E t, u \in Running : t # u /\ t.state = "open" /\ u.state = "open"
    /\ \E t \in Running : \E v \in tasks : Finished(v) /\ v.dest = t.dest /\ v.src # t.src

=============================================================================
